---- MODULE Spec2Model ----
(***************************************************************************)
(* Model of urbanApp_v1.py: a Streamlit survey script.  Every user         *)
(* interaction re-executes the script top to bottom against the session's  *)
(* st.session_state; one action of the model is one such script run.       *)
(* The Google worksheet `ws` is the shared, append-only store.             *)
(*                                                                         *)
(* Clock readings (time.time()) are whole seconds; one script run reads    *)
(* the clock at a single instant.  Slider values are hundredths (0..100    *)
(* stands for 0.00..1.00).  A failing ws.append_row appends nothing.       *)
(***************************************************************************)
EXTENDS Integers, Sequences, FiniteSets, TLC

VARIABLES
    stimuli,            \* the STIMULI catalog in force
    trials_requested,   \* the constant of TRIALS_PER_PARTICIPANT = min(<it>, len(STIMULI))
    session_state,      \* [session -> st.session_state of that session]
    sheet,              \* rows of the worksheet ws, in append order
    now,                \* the clock, in seconds
    submit_enabled,     \* [session -> the browser shows "Submit this trial" enabled]
    rerun,              \* [session -> st.rerun() was called, the next run is due]
    call,               \* the append_row_with_retry call of the current script run
    submitted_ok,       \* [session -> number of submit calls that returned True]
    submitted_fail,     \* [session -> number of submit calls that returned False]
    consent_given       \* [session -> the consent box was ticked when "Begin trials" was clicked]

vars == << stimuli, trials_requested, session_state, sheet, now,
           submit_enabled, rerun, call, submitted_ok, submitted_fail, consent_given >>

-----------------------------------------------------------------------------
(* Bounds *)

MaxDwell == 4      \* a participant stays at most this many seconds on one trial
MaxBudget == 3      \* largest max_retries the pipeline is called with
MaxRequested == 3   \* largest requested trial count
MultiTrials == 2    \* trials of each of two concurrent sessions

(* Program constants *)

STIMULI ==
    << [id |-> "S01", image |-> "i_qeop_3.jpg", audio |-> "a_3_garden.wav"],
       [id |-> "S02", image |-> "i_qeop_2.jpg", audio |-> "a_2_spring music.wav"],
       [id |-> "S03", image |-> "i_qeop_1.jpg", audio |-> "a_1_east village.wav"] >>

TRIALS_REQUESTED == 3
MIN_LISTEN_SECONDS == 3
DEFAULT_MAX_RETRIES == 1
NOT_HEARD == 900            \* the integer 9, in hundredths
SLIDER_DEFAULT == 50        \* value=0.5
SLIDER_MAX == 100           \* max_value=1.0
AGE_MIN == 1                \* min_value=1
AGE_MAX == 100              \* max_value=100
RANDINT_LOW == 100000
RANDINT_HIGH == 999999

all_sound_types ==
    << "Birdsong", "Wind", "Water", "Human voice", "Car", "Bicycle",
       "Airplane/Helicopter", "Construction noise", "Music", "Other" >>

GENDER_OPTIONS == << "", "Female", "Male", "Non-binary", "Prefer not to say", "Other" >>

NONE == -1                  \* Python's None in a time field
NO_INFO == [age |-> 0, gender |-> ""]   \* base_info not yet in session_state

Sessions == {1}

-----------------------------------------------------------------------------
(* Helpers *)

Range(f) == { f[x] : x \in DOMAIN f }

Min(a, b) == IF a <= b THEN a ELSE b

RECURSIVE Pow2(_)
Pow2(n) == IF n = 0 THEN 1 ELSE 2 * Pow2(n - 1)

\* the outcomes of random.shuffle on a list of n elements
ShuffleOutcomes(n) == { p \in [1..n -> 1..n] : \A a, b \in 1..n : p[a] = p[b] => a = b }

\* the sub-catalogs of STIMULI (entries kept in their order)
RECURSIVE SubCatalogsFrom(_)
SubCatalogsFrom(k) ==
    IF k > Len(STIMULI) THEN { << >> }
    ELSE LET rest == SubCatalogsFrom(k + 1)
         IN  rest \cup { << STIMULI[k] >> \o r : r \in rest }

Catalogs == SubCatalogsFrom(1)

-----------------------------------------------------------------------------
(* Submission pipeline: append_row_with_retry *)

Outcomes == { "OK", "APIError", "Exception" }   \* what one ws.append_row call does

\* except APIError: / except Exception as e:  (APIError is an Exception)
CaughtAsAPIError(o) == o = "APIError"
CaughtAsException(o) == o \in { "APIError", "Exception" }

NoResult == [ ok |-> FALSE, raised |-> FALSE, returned |-> FALSE, attempts |-> 0,
              appended |-> 0, slept |-> 0, warnings |-> 0 ]

\* retry_loop with `return False` in the `except Exception` branch
RECURSIVE retry_loop_surface(_, _, _, _, _)
retry_loop_surface(ws, row_values, max_retries, outcomes, acc) ==
    LET i == acc.r.attempts
    IN  IF i >= max_retries
        THEN [ acc EXCEPT !.r.returned = TRUE, !.r.ok = FALSE ]
        ELSE LET o == outcomes[i + 1]
                 tried == [ acc EXCEPT !.r.attempts = i + 1 ]
             IN  IF o = "OK"
                 THEN [ tried EXCEPT !.ws = Append(acc.ws, row_values),
                                     !.r.appended = acc.r.appended + 1,
                                     !.r.returned = TRUE, !.r.ok = TRUE ]
                 ELSE IF CaughtAsAPIError(o)
                 THEN retry_loop_surface(ws, row_values, max_retries, outcomes,
                          [ tried EXCEPT !.r.slept = acc.r.slept + Pow2(i) ])
                 ELSE IF CaughtAsException(o)
                 THEN [ tried EXCEPT !.r.warnings = acc.r.warnings + 1,
                                     !.r.returned = TRUE, !.r.ok = FALSE ]
                 ELSE [ tried EXCEPT !.r.raised = TRUE ]

\* retry_loop with `ok = True` in place of `return True`: the loop goes on
RECURSIVE retry_loop_no_return(_, _, _, _, _)
retry_loop_no_return(ws, row_values, max_retries, outcomes, acc) ==
    LET i == acc.r.attempts
    IN  IF i >= max_retries
        THEN [ acc EXCEPT !.r.returned = TRUE ]
        ELSE LET o == outcomes[i + 1]
                 tried == [ acc EXCEPT !.r.attempts = i + 1 ]
             IN  IF o = "OK"
                 THEN retry_loop_no_return(ws, row_values, max_retries, outcomes,
                          [ tried EXCEPT !.ws = Append(acc.ws, row_values),
                                         !.r.appended = acc.r.appended + 1,
                                         !.r.ok = TRUE ])
                 ELSE IF CaughtAsAPIError(o)
                 THEN retry_loop_no_return(ws, row_values, max_retries, outcomes,
                          [ tried EXCEPT !.r.slept = acc.r.slept + Pow2(i) ])
                 ELSE IF CaughtAsException(o)
                 THEN retry_loop_no_return(ws, row_values, max_retries, outcomes,
                          [ tried EXCEPT !.r.slept = acc.r.slept + 1,
                                         !.r.warnings = acc.r.warnings + 1 ])
                 ELSE [ tried EXCEPT !.r.raised = TRUE ]

\* retry_loop with ws.insert_row(row_values, 1) in place of ws.append_row
RECURSIVE retry_loop_insert_top(_, _, _, _, _)
retry_loop_insert_top(ws, row_values, max_retries, outcomes, acc) ==
    LET i == acc.r.attempts
    IN  IF i >= max_retries
        THEN [ acc EXCEPT !.r.returned = TRUE, !.r.ok = FALSE ]
        ELSE LET o == outcomes[i + 1]
                 tried == [ acc EXCEPT !.r.attempts = i + 1 ]
             IN  IF o = "OK"
                 THEN [ tried EXCEPT !.ws = << row_values >> \o acc.ws,
                                     !.r.appended = acc.r.appended + 1,
                                     !.r.returned = TRUE, !.r.ok = TRUE ]
                 ELSE IF CaughtAsAPIError(o)
                 THEN retry_loop_insert_top(ws, row_values, max_retries, outcomes,
                          [ tried EXCEPT !.r.slept = acc.r.slept + Pow2(i) ])
                 ELSE IF CaughtAsException(o)
                 THEN retry_loop_insert_top(ws, row_values, max_retries, outcomes,
                          [ tried EXCEPT !.r.slept = acc.r.slept + 1,
                                         !.r.warnings = acc.r.warnings + 1 ])
                 ELSE [ tried EXCEPT !.r.raised = TRUE ]

\* retry_loop with `range(max_retries + 1)`: one attempt more than the budget
RECURSIVE retry_loop_extra(_, _, _, _, _)
retry_loop_extra(ws, row_values, max_retries, outcomes, acc) ==
    LET i == acc.r.attempts
    IN  IF i >= max_retries + 1
        THEN [ acc EXCEPT !.r.returned = TRUE, !.r.ok = FALSE ]
        ELSE LET o == outcomes[i + 1]
                 tried == [ acc EXCEPT !.r.attempts = i + 1 ]
             IN  IF o = "OK"
                 THEN [ tried EXCEPT !.ws = Append(acc.ws, row_values),
                                     !.r.appended = acc.r.appended + 1,
                                     !.r.returned = TRUE, !.r.ok = TRUE ]
                 ELSE IF CaughtAsAPIError(o)
                 THEN retry_loop_extra(ws, row_values, max_retries, outcomes,
                          [ tried EXCEPT !.r.slept = acc.r.slept + Pow2(i) ])
                 ELSE IF CaughtAsException(o)
                 THEN retry_loop_extra(ws, row_values, max_retries, outcomes,
                          [ tried EXCEPT !.r.slept = acc.r.slept + 1,
                                         !.r.warnings = acc.r.warnings + 1 ])
                 ELSE [ tried EXCEPT !.r.raised = TRUE ]

\* One iteration of `for i in range(max_retries)` and the rest of the loop.
\* outcomes[k] is the store's answer to the k-th append_row of this call.
RECURSIVE retry_loop(_, _, _, _, _)
retry_loop(ws, row_values, max_retries, outcomes, acc) ==
    LET i == acc.r.attempts
    IN  IF i >= max_retries
        THEN [ acc EXCEPT !.r.returned = TRUE, !.r.ok = FALSE ]
        ELSE LET o == outcomes[i + 1]
                 tried == [ acc EXCEPT !.r.attempts = i + 1 ]
             IN  IF o = "OK"
                 THEN [ tried EXCEPT !.ws = Append(acc.ws, row_values),
                                     !.r.appended = acc.r.appended + 1,
                                     !.r.returned = TRUE, !.r.ok = TRUE ]
                 ELSE IF CaughtAsAPIError(o)
                 THEN retry_loop(ws, row_values, max_retries, outcomes,
                          [ tried EXCEPT !.r.slept = acc.r.slept + Pow2(i) ])
                 ELSE IF CaughtAsException(o)
                 THEN retry_loop(ws, row_values, max_retries, outcomes,
                          [ tried EXCEPT !.r.slept = acc.r.slept + 1,
                                         !.r.warnings = acc.r.warnings + 1 ])
                 ELSE [ tried EXCEPT !.r.raised = TRUE ]

\* result: [ws |-> the worksheet afterwards, r |-> what the call did]
append_row_with_retry(ws, row_values, max_retries, outcomes) ==
    retry_loop(ws, row_values, max_retries, outcomes, [ ws |-> ws, r |-> NoResult ])

NoResponse == [ comfort |-> 0, pleasantness |-> 0, match |-> 0,
                sound_types |-> { }, ratings |-> << >> ]

NoCall == [ state |-> "none", s |-> 0, max_retries |-> 0, outcomes |-> << >>,
            before |-> 0, resp |-> NoResponse, r |-> NoResult ]

\* every scripted answer sequence of length n
OutcomeSeqs(n) == [ 1..n -> Outcomes ]

-----------------------------------------------------------------------------
(* Session state: init_state *)

TRIALS_PER_PARTICIPANT(catalog, requested) == Min(requested, Len(catalog))

\* order = STIMULI[:]; random.shuffle(order); order[:TRIALS_PER_PARTICIPANT]
\* perm is what the shuffle did: position a of the result holds catalog[perm[a]]
build_order(catalog, count, perm) ==
    LET order == [ a \in 1..Len(catalog) |-> catalog[perm[a]] ]
    IN  SubSeq(order, 1, count)

\* "P_" + str(random.randint(100000, 999999))
participant_id_of(n) == << "P_", n >>

EmptySession ==
    [ inited |-> FALSE, participant_id |-> << >>, demographics_done |-> FALSE,
      base_info |-> NO_INFO, trial_order |-> << >>, trial_idx |-> 0,
      trial_start_time |-> NONE, form_unlocked_time |-> NONE ]

\* init_trial_order without the `not in` test: every run shuffles again
init_trial_order_rebuild(ss, catalog, requested, perm) ==
    build_order(catalog, TRIALS_PER_PARTICIPANT(catalog, requested), perm)

\* if "trial_order" not in st.session_state: ...
init_trial_order(ss, catalog, requested, perm) ==
    IF ~ss.inited
    THEN build_order(catalog, TRIALS_PER_PARTICIPANT(catalog, requested), perm)
    ELSE ss.trial_order

\* if "participant_id" not in st.session_state: ...
init_participant_id(ss, n) ==
    IF ~ss.inited THEN participant_id_of(n) ELSE ss.participant_id

\* init_state(): every key is written only when it is not yet in the session
init_state(ss, catalog, requested, perm, n) ==
    [ inited |-> TRUE,
      participant_id |-> init_participant_id(ss, n),
      demographics_done |-> IF ~ss.inited THEN FALSE ELSE ss.demographics_done,
      base_info |-> ss.base_info,
      trial_order |-> init_trial_order(ss, catalog, requested, perm),
      trial_idx |-> IF ~ss.inited THEN 0 ELSE ss.trial_idx,
      trial_start_time |-> IF ~ss.inited THEN NONE ELSE ss.trial_start_time,
      form_unlocked_time |-> IF ~ss.inited THEN NONE ELSE ss.form_unlocked_time ]

\* the three pages of the script
AwaitingConsent(ss) == ~ss.demographics_done
\* the trial loop guard with <= in place of <
InTrial_le(ss) == ss.demographics_done /\ ss.trial_idx <= Len(ss.trial_order)

InTrial(ss) == ss.demographics_done /\ ss.trial_idx < Len(ss.trial_order)
Complete(ss) == ss.demographics_done /\ ss.trial_idx >= Len(ss.trial_order)

-----------------------------------------------------------------------------
(* Trial page *)

\* if st.session_state.trial_start_time is None: ... = time.time()
start_timer(ss, t) ==
    IF ss.trial_start_time = NONE THEN [ ss EXCEPT !.trial_start_time = t ] ELSE ss

elapsed(ss, t) == t - ss.trial_start_time
\* ready with the threshold taken in milliseconds
ready_in_ms(ss, t) == elapsed(ss, t) >= MIN_LISTEN_SECONDS * 1000

\* ready with > in place of >=
ready_strict(ss, t) == elapsed(ss, t) > MIN_LISTEN_SECONDS
ready(ss, t) == elapsed(ss, t) >= MIN_LISTEN_SECONDS

\* if st.session_state.form_unlocked_time is None: ... = trial_start_time + MIN_LISTEN_SECONDS
unlock_form(ss) ==
    IF ss.form_unlocked_time = NONE
    THEN [ ss EXCEPT !.form_unlocked_time = ss.trial_start_time + MIN_LISTEN_SECONDS ]
    ELSE ss

\* int((time.time() - form_unlocked_time) * 1000); the difference is whole seconds
rt_ms(ss, t) == (t - ss.form_unlocked_time) * 1000

\* heard_of with 0 for a category that was not selected
heard_of_zero(sound_types, ratings) ==
    [ c \in Range(all_sound_types) |->
        IF c \in sound_types
        THEN (IF c \in DOMAIN ratings THEN ratings[c] ELSE 0)
        ELSE 0 ]

\* heard = {s: 9 for s in all_sound_types}; for s in sound_types: heard[s] = ratings.get(s, 9)
heard_of(sound_types, ratings) ==
    [ c \in Range(all_sound_types) |->
        IF c \in sound_types
        THEN (IF c \in DOMAIN ratings THEN ratings[c] ELSE NOT_HEARD)
        ELSE NOT_HEARD ]

\* row_of with the image and audio columns filled the other way round
row_of_swapped_refs(ss, t, resp) ==
    LET i == ss.trial_idx
        stim == ss.trial_order[i + 1]
    IN  [ timestamp |-> t,
          participant_id |-> ss.participant_id,
          trial_index |-> i,
          stimulus_id |-> stim.id,
          image |-> stim.audio,
          audio |-> stim.image,
          age |-> ss.base_info.age,
          gender |-> ss.base_info.gender,
          comfort |-> resp.comfort,
          pleasantness |-> resp.pleasantness,
          match |-> resp.match,
          heard |-> heard_of(resp.sound_types, resp.ratings),
          rt_ms |-> rt_ms(ss, t) ]

\* row_of with the displayed trial number i+1 in the trial index column
row_of_one_based(ss, t, resp) ==
    LET i == ss.trial_idx
        stim == ss.trial_order[i + 1]
    IN  [ timestamp |-> t,
          participant_id |-> ss.participant_id,
          trial_index |-> i + 1,
          stimulus_id |-> stim.id,
          image |-> stim.image,
          audio |-> stim.audio,
          age |-> ss.base_info.age,
          gender |-> ss.base_info.gender,
          comfort |-> resp.comfort,
          pleasantness |-> resp.pleasantness,
          match |-> resp.match,
          heard |-> heard_of(resp.sound_types, resp.ratings),
          rt_ms |-> rt_ms(ss, t) ]

\* row = [...]: the 22 columns, the ten category columns as the function heard
row_of(ss, t, resp) ==
    LET i == ss.trial_idx
        stim == ss.trial_order[i + 1]
    IN  [ timestamp |-> t,
          participant_id |-> ss.participant_id,
          trial_index |-> i,
          stimulus_id |-> stim.id,
          image |-> stim.image,
          audio |-> stim.audio,
          age |-> ss.base_info.age,
          gender |-> ss.base_info.gender,
          comfort |-> resp.comfort,
          pleasantness |-> resp.pleasantness,
          match |-> resp.match,
          heard |-> heard_of(resp.sound_types, resp.ratings),
          rt_ms |-> rt_ms(ss, t) ]

\* advance with the increment done twice
advance_skip(idx) == idx + 2

\* advance without the increment
advance_stuck(idx) == idx

\* st.session_state.trial_idx += 1
advance(idx) == idx + 1

\* reset_timing without the reset of form_unlocked_time
reset_timing_keeps_unlock(ss) == [ ss EXCEPT !.trial_start_time = NONE ]

\* trial_start_time = None; form_unlocked_time = None
reset_timing(ss) == [ ss EXCEPT !.trial_start_time = NONE, !.form_unlocked_time = NONE ]

\* the tail of the submit handler, after append_row_with_retry returned ok
after_append(ss, ok) == reset_timing([ ss EXCEPT !.trial_idx = advance(ss.trial_idx) ])

\* "Begin trials" with disabled = consent or gender
begin_disabled_either(consent, gender) == ~(consent \/ gender # "")

\* disabled = not (consent and gender)
begin_disabled(consent, gender) == ~(consent /\ gender # "")

(* Inputs *)

RandInts == { RANDINT_LOW, RANDINT_HIGH }
Ages == { AGE_MIN, AGE_MAX }
Genders == { GENDER_OPTIONS[1], GENDER_OPTIONS[2] }

\* What the random module hands to one script run: random.shuffle and
\* random.randint are called only in the run that finds the session empty.
Draws(ss, catalog) ==
    IF ~ss.inited
    THEN [ perm : ShuffleOutcomes(Len(catalog)), n : RandInts ]
    ELSE { [ perm |-> [ a \in 1..Len(catalog) |-> a ], n |-> RANDINT_LOW ] }

\* what the participant set on the sliders and the multiselect of one trial
Responses ==
    { [ comfort |-> SLIDER_DEFAULT, pleasantness |-> SLIDER_DEFAULT, match |-> SLIDER_DEFAULT,
        sound_types |-> { }, ratings |-> << >> ],
      [ comfort |-> 0, pleasantness |-> SLIDER_MAX, match |-> 25,
        sound_types |-> { "Wind", "Car" },
        ratings |-> [ c \in { "Wind", "Car" } |-> IF c = "Wind" THEN 0 ELSE 75 ] ] }

-----------------------------------------------------------------------------
(* Script runs *)

SetSession(s, ss) == session_state' = [ session_state EXCEPT ![s] = ss ]

\* A run in which no button was clicked (first load, a widget was moved, or
\* the run that st.rerun() asked for): init_state(), then the page is drawn.
ScriptRun(s) ==
    \E d \in Draws(session_state[s], stimuli) :
        LET ss0 == init_state(session_state[s], stimuli, trials_requested, d.perm, d.n)
            ss1 == IF InTrial(ss0) THEN start_timer(ss0, now) ELSE ss0
        IN  /\ SetSession(s, ss1)
            /\ submit_enabled' = [ submit_enabled EXCEPT ![s] = InTrial(ss0) /\ ready(ss1, now) ]
            /\ rerun' = [ rerun EXCEPT ![s] = FALSE ]
            /\ call' = NoCall
            /\ UNCHANGED << stimuli, trials_requested, sheet, now, submitted_ok, submitted_fail,
                            consent_given >>

\* The run in which "Begin trials" was clicked; the button is only enabled
\* when the consent box is ticked and a gender is chosen.
BeginTrials(s) ==
    /\ session_state[s].inited
    /\ ~rerun[s]
    /\ \E d \in Draws(session_state[s], stimuli),
          consent \in BOOLEAN, age \in Ages, gender \in Genders :
        LET ss0 == init_state(session_state[s], stimuli, trials_requested, d.perm, d.n)
            disabled == begin_disabled(consent, gender)
        IN  /\ AwaitingConsent(ss0)
            /\ ~disabled
            /\ SetSession(s, [ ss0 EXCEPT !.base_info = [ age |-> age, gender |-> gender ],
                                          !.demographics_done = TRUE ])
            /\ rerun' = [ rerun EXCEPT ![s] = TRUE ]
            /\ consent_given' = [ consent_given EXCEPT ![s] = consent ]
            /\ call' = NoCall
            /\ UNCHANGED << stimuli, trials_requested, sheet, now, submit_enabled,
                            submitted_ok, submitted_fail >>

\* The run in which st.button("Submit this trial") returned True.
SubmitRun(s, ss0) ==
    \E resp \in Responses, outcomes \in OutcomeSeqs(DEFAULT_MAX_RETRIES + 1) :
        LET ss1 == start_timer(ss0, now)
            ss2 == unlock_form(ss1)
            row == row_of(ss2, now, resp)
            res == append_row_with_retry(sheet, row, DEFAULT_MAX_RETRIES, outcomes)
        IN  /\ sheet' = res.ws
            /\ SetSession(s, IF res.r.raised THEN ss2 ELSE after_append(ss2, res.r.ok))
            /\ rerun' = [ rerun EXCEPT ![s] = ~res.r.raised ]
            /\ now' = now + res.r.slept
            /\ call' = [ state |-> "returned", s |-> s, max_retries |-> DEFAULT_MAX_RETRIES,
                         outcomes |-> outcomes, before |-> Len(sheet), resp |-> resp,
                         r |-> res.r ]
            /\ submitted_ok' = [ submitted_ok EXCEPT ![s] = @ + (IF res.r.ok THEN 1 ELSE 0) ]
            /\ submitted_fail' = [ submitted_fail EXCEPT ![s] = @ + (IF res.r.ok THEN 0 ELSE 1) ]
            /\ UNCHANGED << stimuli, trials_requested, submit_enabled, consent_given >>

\* The participant clicks the enabled submit button.
ClickSubmit(s) ==
    /\ session_state[s].inited
    /\ ~rerun[s]
    /\ submit_enabled[s]
    /\ \E d \in Draws(session_state[s], stimuli) :
        LET ss0 == init_state(session_state[s], stimuli, trials_requested, d.perm, d.n)
        IN  InTrial(ss0) /\ SubmitRun(s, ss0)

\* The second click of a double click on "Submit this trial": it arrives with
\* the run that st.rerun() asked for, where the next trial draws a button of the
\* same label and no key, so st.button returns True although this run draws it
\* disabled (the handler does not look at `ready`).
SubmitLocked(s) ==
    /\ session_state[s].inited
    /\ rerun[s]
    /\ call.state = "returned" /\ call.s = s
    /\ \E d \in Draws(session_state[s], stimuli) :
        LET ss0 == init_state(session_state[s], stimuli, trials_requested, d.perm, d.n)
        IN  /\ InTrial(ss0)
            /\ ~ready(start_timer(ss0, now), now)
            /\ SubmitRun(s, ss0)

\* One second passes while a participant is on a trial page.
Tick ==
    /\ \A s \in DOMAIN session_state : ~rerun[s]
    /\ \E s \in DOMAIN session_state :
          InTrial(session_state[s]) /\ session_state[s].trial_start_time # NONE
    /\ \A s \in DOMAIN session_state :
          (InTrial(session_state[s]) /\ session_state[s].trial_start_time # NONE)
              => elapsed(session_state[s], now) < MaxDwell
    /\ now' = now + 1
    /\ UNCHANGED << stimuli, trials_requested, session_state, sheet, submit_enabled,
                    rerun, call, submitted_ok, submitted_fail, consent_given >>

InitSession ==
    /\ session_state = [ s \in Sessions |-> EmptySession ]
    /\ sheet = << >>
    /\ now = 0
    /\ submit_enabled = [ s \in Sessions |-> FALSE ]
    /\ rerun = [ s \in Sessions |-> FALSE ]
    /\ submitted_ok = [ s \in Sessions |-> 0 ]
    /\ submitted_fail = [ s \in Sessions |-> 0 ]
    /\ consent_given = [ s \in Sessions |-> FALSE ]

Init ==
    /\ stimuli = STIMULI
    /\ trials_requested = TRIALS_REQUESTED
    /\ InitSession
    /\ call = NoCall

Next ==
    \/ \E s \in DOMAIN session_state : ScriptRun(s)
    \/ \E s \in DOMAIN session_state : BeginTrials(s)
    \/ \E s \in DOMAIN session_state : ClickSubmit(s)
    \/ \E s \in DOMAIN session_state : SubmitLocked(s)
    \/ Tick

Spec == Init /\ [][Next]_vars

\* The participant has opened the page (init_state has run) and stands before
\* the consent form.
InitLive ==
    /\ stimuli = STIMULI
    /\ trials_requested = TRIALS_REQUESTED
    /\ session_state =
          [ s \in Sessions |->
              init_state(EmptySession, STIMULI, TRIALS_REQUESTED,
                         [ a \in 1..Len(STIMULI) |-> a ], RANDINT_LOW) ]
    /\ sheet = << >>
    /\ now = 0
    /\ submit_enabled = [ s \in Sessions |-> FALSE ]
    /\ rerun = [ s \in Sessions |-> FALSE ]
    /\ submitted_ok = [ s \in Sessions |-> 0 ]
    /\ submitted_fail = [ s \in Sessions |-> 0 ]
    /\ consent_given = [ s \in Sessions |-> FALSE ]
    /\ call = NoCall

\* Time passes; a run that st.rerun() asked for, or that a touched widget
\* causes, is carried out; the participant clicks the submit button once it is
\* drawn enabled.
SpecLive ==
    /\ InitLive
    /\ [][Next]_vars
    /\ WF_vars(Tick)
    /\ \A s \in Sessions : WF_vars(ScriptRun(s)) /\ WF_vars(ClickSubmit(s))

-----------------------------------------------------------------------------
(* The session under every catalog and every requested trial count *)

InitOrder ==
    /\ stimuli \in Catalogs
    /\ trials_requested \in 0..MaxRequested
    /\ InitSession
    /\ call = NoCall

SpecOrder == InitOrder /\ [][Next]_vars

-----------------------------------------------------------------------------
(* Two browser sessions against the one worksheet *)

MultiSessions == { 1, 2 }

\* Participant 1 has opened the page (init_state has run) and stands before the
\* consent form; participant 2 has just clicked "Begin trials" and the rerun
\* that draws its first trial is pending.
InitMulti ==
    /\ stimuli = STIMULI
    /\ trials_requested = MultiTrials
    /\ session_state =
          [ s \in MultiSessions |->
              LET ss == init_state(EmptySession, STIMULI, MultiTrials,
                                   [ a \in 1..Len(STIMULI) |-> a ],
                                   IF s = 1 THEN RANDINT_LOW ELSE RANDINT_HIGH)
              IN  IF s = 1 THEN ss
                  ELSE [ ss EXCEPT !.base_info = [ age |-> AGE_MIN, gender |-> GENDER_OPTIONS[1] ],
                                   !.demographics_done = TRUE ] ]
    /\ sheet = << >>
    /\ now = 0
    /\ submit_enabled = [ s \in MultiSessions |-> FALSE ]
    /\ rerun = [ s \in MultiSessions |-> s = 2 ]
    /\ submitted_ok = [ s \in MultiSessions |-> 0 ]
    /\ submitted_fail = [ s \in MultiSessions |-> 0 ]
    /\ consent_given = [ s \in MultiSessions |-> s = 2 ]
    /\ call = NoCall

SpecMulti == InitMulti /\ [][Next]_vars

------------------------------------------------------------------------------
(* append_row_with_retry on its own: every budget, every answer sequence *)

ProbeRow == [ participant_id |-> participant_id_of(RANDINT_LOW), trial_index |-> 0 ]

InitPipe ==
    /\ stimuli = STIMULI
    /\ trials_requested = TRIALS_REQUESTED
    /\ InitSession
    /\ \E b \in 0..MaxBudget, outcomes \in OutcomeSeqs(MaxBudget + 1) :
          call = [ state |-> "pending", s |-> 0, max_retries |-> b,
                   outcomes |-> outcomes, before |-> 0, resp |-> NoResponse,
                   r |-> NoResult ]

PipelineCall ==
    /\ call.state = "pending"
    /\ LET res == append_row_with_retry(sheet, ProbeRow, call.max_retries, call.outcomes)
       IN  /\ sheet' = res.ws
           /\ now' = now + res.r.slept
           /\ call' = [ call EXCEPT !.state = "returned", !.r = res.r ]
    /\ UNCHANGED << stimuli, trials_requested, session_state, submit_enabled, rerun,
                    submitted_ok, submitted_fail, consent_given >>

NextPipe == PipelineCall

SpecPipe == InitPipe /\ [][NextPipe]_vars

\* a call that was made runs to its end
SpecPipeFair == SpecPipe /\ WF_vars(PipelineCall)

-----------------------------------------------------------------------------
(* Vocabulary of the properties *)

\* positions of the sheet that hold a row of session s for trial index j
RowsOf(s, j) ==
    { k \in 1..Len(sheet) :
        /\ sheet[k].participant_id = session_state[s].participant_id
        /\ sheet[k].trial_index = j }

\* positions of the sheet that hold a row of session s
RowsOfSession(s) ==
    { k \in 1..Len(sheet) : sheet[k].participant_id = session_state[s].participant_id }

\* this step is a run of the submit handler of session s
SubmitStep(s) ==
    submitted_ok'[s] + submitted_fail'[s] = submitted_ok[s] + submitted_fail[s] + 1
SubmitOkStep(s) == submitted_ok'[s] = submitted_ok[s] + 1
SubmitFailStep(s) == submitted_fail'[s] = submitted_fail[s] + 1

\* the timing the trial page has when the handler starts (line 137 has run)
TimingAtHandler(s) == start_timer(session_state[s], now)

-----------------------------------------------------------------------------
\* C1: a failed trial submission leaves the session in the same trial: trial_idx
\* and trial_start_time are after the submission step what they were before it.
C1_FailedSubmissionStays ==
    [][ \A s \in Sessions :
          SubmitFailStep(s) =>
              /\ session_state'[s].trial_idx = session_state[s].trial_idx
              /\ session_state'[s].trial_start_time = TimingAtHandler(s).trial_start_time
      ]_vars

\* C2: a successful trial submission appends the row of trial i, increases
\* trial_idx by exactly 1 and leaves both timing fields unset; the session is then
\* in trial i+1, or complete when i+1 = len(trial_order).
C2_SuccessAdvances ==
    [][ \A s \in Sessions :
          SubmitOkStep(s) =>
              LET i == session_state[s].trial_idx
                  after == session_state'[s]
              IN  /\ Len(sheet') = Len(sheet) + 1
                  /\ sheet'[Len(sheet')].trial_index = i
                  /\ after.trial_idx = i + 1
                  /\ after.trial_start_time = NONE
                  /\ after.form_unlocked_time = NONE
                  /\ after.trial_order = session_state[s].trial_order
                  /\ IF i + 1 = Len(after.trial_order)
                     THEN Complete(after)
                     ELSE InTrial(after) /\ ~Complete(after)
      ]_vars

C2_Witness ==
    \E s \in Sessions :
        /\ call.state = "returned" /\ call.s = s /\ call.r.ok
        /\ rerun[s]
        /\ session_state[s].trial_idx = 2
        /\ Len(sheet) = 2

\* C3: a submission that reaches the handler while the exposure gate is not ready
\* appends no row and changes neither trial_idx nor the timing fields.
C3_LockedSubmissionRejected ==
    [][ \A s \in Sessions :
          (SubmitStep(s) /\ ~ready(TimingAtHandler(s), now)) =>
              /\ sheet' = sheet
              /\ session_state'[s].trial_idx = session_state[s].trial_idx
              /\ session_state'[s].trial_start_time = TimingAtHandler(s).trial_start_time
              /\ session_state'[s].form_unlocked_time = session_state[s].form_unlocked_time
      ]_vars

\* C4: whenever the session is complete, the sheet holds exactly one row of the
\* participant for every trial index 0..len(trial_order)-1.
C4_CompleteHasEveryRow ==
    \A s \in Sessions :
        Complete(session_state[s]) =>
            \A j \in 0..(Len(session_state[s].trial_order) - 1) :
                Cardinality(RowsOf(s, j)) = 1

\* C5: the sheet never holds more than one row for a (participant_id, trial_index)
\* pair of a session, whatever submissions and failures came before.
C5_AtMostOneRowPerTrial ==
    \A s \in Sessions :
        \A j \in 0..Len(stimuli) : Cardinality(RowsOf(s, j)) <= 1

C5_Witness ==
    \E s \in Sessions :
        /\ submitted_fail[s] >= 1
        /\ Cardinality(RowsOfSession(s)) >= 2
        /\ Complete(session_state[s])

\* C6: when all n = len(trial_order) submissions of a session succeeded, the
\* session is complete and the sheet holds exactly n rows of the participant,
\* one for each trial index 0..n-1, the row of index j with the id of trial_order[j].
C6_AllSucceedAllRows ==
    \A s \in Sessions :
        LET ss == session_state[s]
            n == Len(ss.trial_order)
        IN  (ss.inited /\ n > 0 /\ submitted_fail[s] = 0 /\ submitted_ok[s] = n) =>
                /\ Complete(ss)
                /\ Cardinality(RowsOfSession(s)) = n
                /\ \A j \in 0..(n - 1) :
                      /\ Cardinality(RowsOf(s, j)) = 1
                      /\ \A k \in RowsOf(s, j) : sheet[k].stimulus_id = ss.trial_order[j + 1].id

C6_Witness ==
    \E s \in Sessions :
        /\ Len(session_state[s].trial_order) = TRIALS_REQUESTED
        /\ submitted_fail[s] = 0
        /\ submitted_ok[s] = TRIALS_REQUESTED
        /\ Complete(session_state[s])
        /\ Len(sheet) = TRIALS_REQUESTED

\* C7: in a trial submission whose first append fails with APIError and whose
\* second append the store would accept, the call makes the second attempt and
\* returns True.
C7_SessionRetriesTransient ==
    (call.state = "returned" /\ call.s \in Sessions
        /\ call.outcomes[1] = "APIError" /\ call.outcomes[2] = "OK")
    => (call.r.ok /\ call.r.attempts = 2 /\ Len(sheet) = call.before + 1)

C9_OneCallAtMostOneRow ==
    call.state = "returned" =>
        /\ ~call.r.raised /\ call.r.returned
        /\ call.r.attempts <= call.max_retries
        /\ Len(sheet) = call.r.appended
        /\ call.r.appended <= 1
        /\ call.r.ok <=> (call.r.appended = 1)
        /\ \A k \in 1..call.r.attempts : call.outcomes[k] = "OK" => k = call.r.attempts
        /\ (call.max_retries >= 2 /\ call.outcomes[1] = "APIError" /\ call.outcomes[2] = "OK")
              => (call.r.ok /\ Len(sheet) = 1)

C9_Witness ==
    /\ call.state = "returned"
    /\ call.max_retries >= 2
    /\ call.outcomes[1] = "APIError" /\ call.outcomes[2] = "OK"
    /\ call.r.ok
    /\ Len(sheet) = 1

\* the arrangements of count distinct entries of the catalog
Arrangements(catalog, count) ==
    { o \in [ 1..count -> Range(catalog) ] : \A a, b \in 1..count : o[a] = o[b] => a = b }

C10_Shape ==
    \A s \in Sessions :
        session_state[s].inited =>
            LET o == session_state[s].trial_order
                k == Min(trials_requested, Len(stimuli))
            IN  /\ Len(o) = k
                /\ \A a \in 1..Len(o) : o[a] \in Range(stimuli)
                /\ \A a, b \in 1..Len(o) : o[a].id = o[b].id => a = b

C10_EveryArrangement ==
    \A o \in Arrangements(stimuli, Min(trials_requested, Len(stimuli))) :
        \E d \in Draws(EmptySession, stimuli) :
            init_state(EmptySession, stimuli, trials_requested, d.perm, d.n).trial_order = o

C10_Frozen ==
    \A s \in Sessions :
        session_state[s].inited => session_state'[s].trial_order = session_state[s].trial_order

\* C10: for every catalog and every trial count, the trial_order built at session
\* start has exactly min(count, |catalog|) entries, all of the catalog, with
\* distinct ids; every such arrangement can be drawn; no later run changes it.
C10_TrialOrder ==
    /\ C10_EveryArrangement
    /\ []C10_Shape
    /\ [][C10_Frozen]_vars

C10_Witness ==
    \E s \in Sessions :
        /\ Len(stimuli) = 3
        /\ Len(session_state[s].trial_order) = 2
        /\ session_state[s].trial_order[1] = stimuli[3]
        /\ Complete(session_state[s])

-----------------------------------------------------------------------------
\* C11: on a trial page whose start time is set, a further run of the page
\* keeps that start time; before start_time + MIN_LISTEN_SECONDS the button is
\* not enabled and no run of the page enables it; at the threshold and at every
\* later time a run of the page finds the gate ready and enables the button.
C11_GateThreshold ==
    \A s \in Sessions :
        LET start == session_state[s].trial_start_time
        IN  (InTrial(session_state[s]) /\ start # NONE) =>
                /\ ENABLED (ScriptRun(s) /\ session_state'[s].trial_start_time = start)
                /\ ~ENABLED (ScriptRun(s) /\ session_state'[s].trial_start_time # start)
                /\ (now < start + MIN_LISTEN_SECONDS) =>
                      /\ ~submit_enabled[s]
                      /\ ~ENABLED (ScriptRun(s) /\ submit_enabled'[s])
                /\ (now >= start + MIN_LISTEN_SECONDS) =>
                      /\ ENABLED (ScriptRun(s) /\ submit_enabled'[s])
                      /\ ~ENABLED (ScriptRun(s) /\ ~submit_enabled'[s])

\* the page was drawn again exactly at the threshold, after a draw before it
C11_Witness ==
    \E s \in Sessions :
        /\ InTrial(session_state[s])
        /\ submit_enabled[s]
        /\ session_state[s].trial_idx = 1
        /\ now = session_state[s].trial_start_time + MIN_LISTEN_SECONDS

\* C12: the row appended by a submit run at clock T carries
\* rt_ms = (T - unlock_time) * 1000 with unlock_time = start_time +
\* MIN_LISTEN_SECONDS of that trial, and no appended row has a negative rt_ms.
C12_ReactionTime ==
    [][ \A s \in Sessions :
          SubmitOkStep(s) =>
              LET row == sheet'[Len(sheet')]
                  unlock_time == TimingAtHandler(s).trial_start_time + MIN_LISTEN_SECONDS
              IN  /\ row.rt_ms = (now - unlock_time) * 1000
                  /\ row.rt_ms >= 0
      ]_vars

-----------------------------------------------------------------------------
\* C13: the demographics page is left only by a run in which the consent box
\* is ticked, a gender is chosen and the age is in range; whenever a trial is
\* active, the session is complete or a row of the session is in the sheet,
\* consent was given and the demographics are set.
C13_Leaves ==
    \A s \in Sessions :
        (AwaitingConsent(session_state[s]) /\ ~AwaitingConsent(session_state'[s])) =>
            /\ consent_given'[s]
            /\ session_state'[s].base_info.gender # ""
            /\ session_state'[s].base_info.age \in AGE_MIN..AGE_MAX
            /\ session_state'[s].trial_idx = 0
            /\ session_state'[s].trial_start_time = NONE

C13_Consented ==
    \A s \in Sessions :
        (InTrial(session_state[s]) \/ Complete(session_state[s]) \/ RowsOfSession(s) # { }) =>
            /\ session_state[s].inited
            /\ consent_given[s]
            /\ session_state[s].demographics_done
            /\ session_state[s].base_info.gender \in Range(GENDER_OPTIONS) \ { "" }
            /\ session_state[s].base_info.age \in AGE_MIN..AGE_MAX
            /\ \A k \in RowsOfSession(s) :
                  /\ sheet[k].age = session_state[s].base_info.age
                  /\ sheet[k].gender = session_state[s].base_info.gender

C13_ConsentBeforeTrials ==
    /\ []C13_Consented
    /\ [][C13_Leaves]_vars

C13_Witness ==
    \E s \in Sessions :
        /\ InTrial(session_state[s])
        /\ consent_given[s]
        /\ session_state[s].base_info.age = AGE_MAX
        /\ Len(sheet) = 1

-----------------------------------------------------------------------------
\* C14: once the session is complete, no step changes its participant_id,
\* demographics, trial_order, trial_idx or timing fields, and no step appends
\* a further row of the session.
C14_CompleteIsTerminal ==
    [][ \A s \in Sessions :
          Complete(session_state[s]) =>
              /\ session_state'[s] = session_state[s]
              /\ consent_given'[s] = consent_given[s]
              /\ Complete(session_state'[s])
              /\ ~SubmitStep(s)
              /\ { k \in 1..Len(sheet') :
                     sheet'[k].participant_id = session_state[s].participant_id }
                 = RowsOfSession(s)
      ]_vars

\* the completion page was drawn again after the last submit
C14_Witness ==
    \E s \in Sessions :
        /\ Complete(session_state[s])
        /\ session_state[s].trial_idx = TRIALS_REQUESTED
        /\ ~rerun[s]
        /\ call.state = "none"
        /\ Len(sheet) = 2

\* C15: in the row a submit run appends, a category the participant did not
\* select holds the marker NOT_HEARD, which is no slider value (0..SLIDER_MAX)
\* and in particular not 0, and a selected category holds the satisfaction
\* score set for it; every row of the sheet holds only such values.
C15_NotSelectedIsMarked ==
    /\ NOT_HEARD \notin 0..SLIDER_MAX
    /\ \A k \in 1..Len(sheet) : \A c \in Range(all_sound_types) :
          sheet[k].heard[c] \in (0..SLIDER_MAX) \cup { NOT_HEARD }
    /\ (call.state = "returned" /\ call.s \in Sessions /\ call.r.ok) =>
          LET row == sheet[Len(sheet)]
          IN  /\ DOMAIN row.heard = Range(all_sound_types)
              /\ \A c \in Range(all_sound_types) :
                    IF c \in call.resp.sound_types
                    THEN row.heard[c] = call.resp.ratings[c] /\ row.heard[c] # NOT_HEARD
                    ELSE row.heard[c] = NOT_HEARD /\ row.heard[c] # 0

\* a row with a selected category rated 0.0 next to categories not selected
C15_Witness ==
    /\ call.state = "returned" /\ call.s \in Sessions /\ call.r.ok
    /\ call.resp.sound_types = { "Wind", "Car" }
    /\ sheet[Len(sheet)].heard["Wind"] = 0
    /\ sheet[Len(sheet)].heard["Car"] = 75
    /\ sheet[Len(sheet)].heard["Music"] = NOT_HEARD

C16_InRange ==
    \A s \in Sessions :
        /\ 0 <= session_state[s].trial_idx
        /\ session_state[s].trial_idx <= Len(session_state[s].trial_order)

C16_StepByOne ==
    \A s \in Sessions :
        \/ session_state'[s].trial_idx = session_state[s].trial_idx
        \/ session_state'[s].trial_idx = session_state[s].trial_idx + 1

\* C16: trial_idx always lies in 0..len(trial_order), and every step leaves it
\* unchanged or increases it by exactly 1.
C16_IndexMonotone ==
    /\ []C16_InRange
    /\ [][C16_StepByOne]_vars

C16_Witness ==
    \E s \in Sessions :
        /\ session_state[s].trial_idx = Len(session_state[s].trial_order)
        /\ session_state[s].trial_idx = TRIALS_REQUESTED
        /\ submitted_fail[s] = 2
        /\ submitted_ok[s] = 1

------------------------------------------------------------------------------
\* C17: every call of append_row_with_retry ends by returning a result, after
\* at most max_retries append attempts, whatever the store answers; when every
\* attempt fails it stops after exactly max_retries attempts and returns False.
C17_Bounded ==
    (call.state = "returned") =>
        /\ call.r.returned /\ ~call.r.raised
        /\ call.r.attempts <= call.max_retries
        /\ call.r.ok =>
              /\ call.outcomes[call.r.attempts] = "OK"
              /\ \A k \in 1..(call.r.attempts - 1) : call.outcomes[k] # "OK"
        /\ ~call.r.ok =>
              /\ call.r.attempts = call.max_retries
              /\ \A k \in 1..call.max_retries : call.outcomes[k] # "OK"

C17_PipelineTerminates ==
    /\ [] C17_Bounded
    /\ (call.state = "pending") ~> (call.state = "returned")

\* a call with the whole budget used up by failures of both kinds
C17_Witness ==
    /\ call.state = "returned"
    /\ call.max_retries = MaxBudget
    /\ call.r.attempts = MaxBudget
    /\ ~call.r.ok
    /\ call.r.warnings > 0
    /\ call.r.warnings < call.r.attempts

------------------------------------------------------------------------------
\* C18: with two sessions running interleaved against the one sheet, every
\* step leaves the sheet as it is or puts exactly one row after the rows that
\* were there, which stay as they were and where they were; the step that adds
\* a row is a submit run of one session and the row carries the participant_id
\* of that session.
C18_SharedSheetAppendOnly ==
    [][ \/ sheet' = sheet
        \/ /\ Len(sheet') = Len(sheet) + 1
           /\ SubSeq(sheet', 1, Len(sheet)) = sheet
           /\ \E s \in MultiSessions :
                 /\ SubmitStep(s)
                 /\ \A o \in MultiSessions \ { s } : ~SubmitStep(o)
                 /\ sheet'[Len(sheet')].participant_id = session_state[s].participant_id
      ]_vars

\* the rows of the two sessions alternate in the sheet
C18_Witness ==
    /\ DOMAIN session_state = MultiSessions
    /\ Len(sheet) = 3
    /\ sheet[1].participant_id = session_state[2].participant_id
    /\ sheet[2].participant_id = session_state[1].participant_id
    /\ sheet[3].participant_id = session_state[2].participant_id
    /\ session_state[1].participant_id # session_state[2].participant_id
    /\ sheet[1].trial_index = 0 /\ sheet[2].trial_index = 0 /\ sheet[3].trial_index = 1

------------------------------------------------------------------------------
\* C19: in every reachable state, also after failed submissions, every row of
\* a session in the sheet has a trial_index within 0 .. len(trial_order) - 1,
\* its stimulus_id, image and audio are those of trial_order[trial_index], and
\* its trial_index is below the session's trial_idx.
C19_RowsMatchTrialOrder ==
    \A s \in Sessions : \A k \in RowsOfSession(s) :
        LET r == sheet[k]
            order == session_state[s].trial_order
        IN  /\ r.trial_index >= 0
            /\ r.trial_index < Len(order)
            /\ r.stimulus_id = order[r.trial_index + 1].id
            /\ r.image = order[r.trial_index + 1].image
            /\ r.audio = order[r.trial_index + 1].audio
            /\ r.trial_index < session_state[s].trial_idx

\* the submission of trial 0 failed, those of trials 1 and 2 were appended
C19_Witness ==
    \E s \in Sessions :
        /\ submitted_fail[s] = 1
        /\ submitted_ok[s] = 2
        /\ Len(sheet) = 2
        /\ sheet[1].trial_index = 1
        /\ sheet[2].trial_index = 2
        /\ sheet[2].stimulus_id # STIMULI[3].id
        /\ session_state[s].trial_idx = 3

------------------------------------------------------------------------------
\* C20: once the participant has consented, with a participant who submits
\* every trial whose button is drawn enabled, the session is at trial
\* index 0 at consent time, moves from each trial index to the next one only,
\* and eventually reaches the completion page (trial_idx = len(trial_order)),
\* so it has passed through 0, 1, ..., len(trial_order) - 1 in that order.
C20_InOrder ==
    \A s \in Sessions :
        session_state'[s].trial_idx \in
            { session_state[s].trial_idx, session_state[s].trial_idx + 1 }

C20_ReachesComplete ==
    /\ [][C20_InOrder]_vars
    /\ [] (\A s \in Sessions :
              AwaitingConsent(session_state[s]) => session_state[s].trial_idx = 0)
    /\ \A s \in Sessions :
          session_state[s].demographics_done ~> Complete(session_state[s])

\* the completion page after one row for each of the trials 0, 1, 2
C20_Witness ==
    \E s \in Sessions :
        /\ Complete(session_state[s])
        /\ consent_given[s]
        /\ submitted_ok[s] = TRIALS_REQUESTED
        /\ submitted_fail[s] = 0
        /\ \A j \in 0..(TRIALS_REQUESTED - 1) : sheet[j + 1].trial_index = j

====
